---- MODULE Spec2Model ----
(***************************************************************************)
(* Model of villager-bot/util/ipc.py: the length-prefixed JSON packet      *)
(* Stream, the Client (request/response correlation and background         *)
(* receive loop) and the Server (per-connection authentication gate and    *)
(* handler dispatch).                                                      *)
(*                                                                         *)
(* asyncio runs coroutines cooperatively: an action of this model is the   *)
(* code a task runs between two suspension points (await).                 *)
(***************************************************************************)
EXTENDS Integers, Sequences, FiniteSets, TLC

\* ------------------------------------------------------------------ bounds
NumConns == 2        \* connections the server accepts
MaxReads == 3        \* packets the server reads, over all connections

\* ------------------------------------------------------- packets (server)
\* A field a packet does not carry is Absent (NoId for "id"):
\* packet.get(k, None) yields None for it and attribute access raises.
Absent == "<absent>"

\* f"c{self.current_id}": the role letter and the counter.
FormatId(n) == [role |-> "c", n |-> n]

\* The id of a packet that has no "id" field.
NoId == [role |-> "", n |-> 0]

ServerAuth == "secret"          \* Server.auth, the configured secret

\* Packets a peer sends to the server.  The payload always has a "type"
\* (ipc.py:20); "auth" and "id" are optional.
ServerInbound ==
    { [type |-> "auth",             auth |-> ServerAuth, id |-> FormatId(0)],
      [type |-> "auth",             auth |-> "wrong",    id |-> FormatId(0)],
      [type |-> "auth",             auth |-> Absent,     id |-> FormatId(0)],
      [type |-> "auth",             auth |-> ServerAuth, id |-> NoId],
      [type |-> "auth",             auth |-> "wrong",    id |-> NoId],
      [type |-> "disconnect",       auth |-> Absent,     id |-> NoId],
      [type |-> "eval",             auth |-> Absent,     id |-> FormatId(1)],
      [type |-> "nonexistent-type", auth |-> Absent,     id |-> NoId] }

\* Server.packet_handlers: the application's registry, type -> handler, with
\* the mandatory "missing-packet" entry.
packet_handlers ==
    ("eval" :> "handle_eval") @@ ("missing-packet" :> "handle_missing_packet")

\* Mutant of HandlerFor: the default is used for every type.
HandlerForAlwaysDefault(type) == packet_handlers["missing-packet"]

\* self.packet_handlers.get(packet.type, self.packet_handlers["missing-packet"])
HandlerFor(type) ==
    IF type \in DOMAIN packet_handlers
        THEN packet_handlers[type]
        ELSE packet_handlers["missing-packet"]

\* The auth-response the server writes for `packet`.
AuthResponse(packet, success) ==
    [type |-> "auth-response", success |-> success, id |-> packet.id]

\* list.remove(x): drops the first occurrence of x.
RECURSIVE ListRemove(_, _)
ListRemove(list, x) ==
    IF list = <<>> THEN <<>>
    ELSE IF Head(list) = x THEN Tail(list)
    ELSE <<Head(list)>> \o ListRemove(Tail(list), x)

Conns == 1..NumConns

VARIABLES
    closing,       \* Server.closing
    connections,   \* Server.connections, a list of streams
    sPc,           \* per connection: position of its handle_connection task
    authed,        \* per connection: the local variable `authed`
    sExit,         \* per connection: how handle_connection ended
    sOpen,         \* per connection: the stream's writer is not closed
    sOut,          \* per connection: packets handed to writer.write
    readLog,       \* per connection: packets read_packet has returned
    tasks,         \* per connection: handler tasks created, in creation order
    nReads         \* packets read so far, over all connections

serverVars ==
    <<closing, connections, sPc, authed, sExit, sOpen, sOut, readLog, tasks, nReads>>

\* ------------------------------------------------------------ frame codec
LENGTH_LENGTH == 4        \* struct.calcsize(">i")
MAX_PACKET == 65535       \* largest frame write_packet accepts

\* A byte string is a sequence of runs [b |-> byte value, n |-> repetitions]:
\* n = 1 for a single byte, n > 1 for a long stretch of the same character
\* inside a JSON string.
Byte(b) == [b |-> b, n |-> 1]

RECURSIVE ByteLen(_)
ByteLen(bytes) ==
    IF bytes = <<>> THEN 0 ELSE Head(bytes).n + ByteLen(Tail(bytes))

\* Mutant of PackLength: the prefix counts itself.
PackLengthOfFrame(n) ==
    LET m == n + LENGTH_LENGTH
    IN  <<Byte((m \div 16777216) % 256), Byte((m \div 65536) % 256),
          Byte((m \div 256) % 256), Byte(m % 256)>>

\* struct.pack(">i", n): four bytes, most significant first.
PackLength(n) ==
    <<Byte((n \div 16777216) % 256), Byte((n \div 65536) % 256),
      Byte((n \div 256) % 256), Byte(n % 256)>>

\* struct.unpack(">i", prefix) of four single bytes.
UnpackLength(prefix) ==
    LET high == IF prefix[1].b >= 128 THEN prefix[1].b - 256 ELSE prefix[1].b
    IN  high * 16777216 + prefix[2].b * 65536 + prefix[3].b * 256 + prefix[4].b

\* Packets the client writes: the dict given to send/request, `pad` being the
\* length of its long string field (0: none), `id` set by request.
TypeCode(type) ==
    CASE type = "auth" -> 97
      [] type = "eval" -> 101
      [] type = "shard-ready" -> 115
      [] type = "disconnect" -> 100

\* cj.dumps(data, cls=CustomJSONEncoder).encode(): a JSON object, from its
\* opening to its closing brace: the type, the id when the packet has one,
\* the long field when it has one.
Dumps(data) ==
    <<Byte(123), Byte(TypeCode(data.type))>>
    \o (IF data.id = NoId THEN <<>> ELSE <<Byte(99), Byte(48 + data.id.n)>>)
    \o (IF data.pad = 0 THEN <<>> ELSE <<[b |-> 120, n |-> data.pad]>>)
    \o <<Byte(125)>>

\* packet = struct.pack(">i", len(data)) + data
Frame(data) == PackLength(ByteLen(Dumps(data))) \o Dumps(data)

\* Mutant of TooBig: off by one.
TooBigOffByOne(packet) == ByteLen(packet) >= MAX_PACKET

\* if len(packet) > 65535: raise ValueError
TooBig(packet) == ByteLen(packet) > MAX_PACKET

\* How many leading runs of `bytes` make up exactly n bytes (-1: none do).
RECURSIVE RunsFor(_, _)
RunsFor(bytes, n) ==
    IF n = 0 THEN 0
    ELSE IF bytes = <<>> \/ Head(bytes).n > n THEN -1
    ELSE LET r == RunsFor(Tail(bytes), n - Head(bytes).n)
         IN  IF r = -1 THEN -1 ELSE r + 1

\* What a reader of the byte stream gets from successive read_packet calls
\* when every read returns all it asks for: the payloads, or BadFrames when
\* the bytes do not split into frames.
BadFrames == <<<<[b |-> -1, n |-> 0]>>>>

AddFrame(payload, more) ==
    IF more = BadFrames THEN BadFrames ELSE <<payload>> \o more

RECURSIVE ParseFrames(_)
ParseFrames(bytes) ==
    IF bytes = <<>> THEN <<>>
    ELSE IF RunsFor(bytes, LENGTH_LENGTH) # LENGTH_LENGTH THEN BadFrames
    ELSE LET length == UnpackLength(SubSeq(bytes, 1, LENGTH_LENGTH))
             rest == SubSeq(bytes, LENGTH_LENGTH + 1, Len(bytes))
             k == IF length < 0 THEN -1 ELSE RunsFor(rest, length)
         IN  IF k = -1 THEN BadFrames
             ELSE AddFrame(SubSeq(rest, 1, k), ParseFrames(SubSeq(rest, k + 1, Len(rest))))

\* ------------------------------------------------------------- JSON values
\* A value handed to cj.dumps or returned by cj.loads. Atoms: 0 null, 1 true,
\* 2 the number 7, 3 the string "a", 4 the string "x". A list has items, a
\* mapping has keys and items (items[i] under keys[i]), a set has elems.
Value(kind, atom, keys, items, elems) ==
    [kind |-> kind, atom |-> atom, keys |-> keys, items |-> items, elems |-> elems]

Atom(a) == Value("atom", a, <<>>, <<>>, {})
List(items) == Value("list", -1, <<>>, items, {})
Mapping(keys, items) == Value("mapping", -1, keys, items, {})
SetOf(elems) == Value("set", -1, <<>>, <<>>, elems)

\* No value yet.
NoValue == Value("none", -1, <<>>, <<>>, {})

\* The decoder raised.
Raised == Value("raised", -1, <<>>, <<>>, {})

\* list(obj) of a set of atoms: its elements in some order, here by rising
\* (or, reversed, by falling) atom number.
RECURSIVE ListOfSet(_, _)
ListOfSet(elems, reversed) ==
    IF elems = {} THEN <<>>
    ELSE LET first == CHOOSE e \in elems : \A f \in elems :
                          IF reversed THEN f.atom <= e.atom ELSE e.atom <= f.atom
         IN  <<first>> \o ListOfSet(elems \ {first}, reversed)

\* CustomJSONEncoder: the JSON document of a value. A set goes through
\* default(): dict(_set_object=list(obj)); everything else is standard JSON.
RECURSIVE Encode(_, _)
Encode(v, reversed) ==
    CASE v.kind = "set" ->
             Mapping(<<"_set_object">>, <<List(ListOfSet(v.elems, reversed))>>)
      [] v.kind = "list" ->
             List([i \in DOMAIN v.items |-> Encode(v.items[i], reversed)])
      [] v.kind = "mapping" ->
             Mapping(v.keys, [i \in DOMAIN v.items |-> Encode(v.items[i], reversed)])
      [] OTHER -> v

Range(seq) == {seq[i] : i \in DOMAIN seq}

\* Python's set(x) for the x a decoded document can hold: the elements of a
\* list when all are hashable (atoms), the characters of a one-character
\* string, the keys of a mapping, a set itself; TypeError otherwise.
KeyAtom(key) == IF key = "x" THEN Atom(4) ELSE Raised

SetFrom(v) ==
    CASE v.kind = "list" ->
             IF \A e \in Range(v.items) : e.kind = "atom"
             THEN SetOf(Range(v.items)) ELSE Raised
      [] v.kind = "atom" -> IF v.atom \in {3, 4} THEN SetOf({v}) ELSE Raised
      [] v.kind = "mapping" -> SetOf({KeyAtom(k) : k \in Range(v.keys)})
      [] v.kind = "set" -> v
      [] OTHER -> Raised

\* The value stored under `key` in a mapping that has it.
Lookup(dct, key) ==
    dct.items[CHOOSE i \in DOMAIN dct.keys : dct.keys[i] = key]

\* special_obj_hook(dct)
special_obj_hook(dct) ==
    IF "_set_object" \in Range(dct.keys)
    THEN SetFrom(Lookup(dct, "_set_object"))
    ELSE dct

\* cj.loads(text, object_hook=special_obj_hook): the hook is applied to every
\* JSON object, innermost first; an exception anywhere ends the decoding.
RECURSIVE Decode(_)
Decode(j) ==
    CASE j.kind = "list" ->
             LET items == [i \in DOMAIN j.items |-> Decode(j.items[i])]
             IN  IF Raised \in Range(items) THEN Raised ELSE List(items)
      [] j.kind = "mapping" ->
             LET items == [i \in DOMAIN j.items |-> Decode(j.items[i])]
             IN  IF Raised \in Range(items) THEN Raised
                 ELSE special_obj_hook(Mapping(j.keys, items))
      [] OTHER -> j

\* The payloads tried: atoms, lists, sets, mappings with and without the key
\* _set_object, and one level of nesting.
Atoms == {Atom(a) : a \in 0..4}
Lists == {List(<<>>), List(<<Atom(2)>>), List(<<Atom(2), Atom(3)>>)}
Sets == {SetOf({}), SetOf({Atom(2)}), SetOf({Atom(0), Atom(3)})}
Flat == Atoms \cup Lists \cup Sets

Mappings ==
    {Mapping(<<>>, <<>>)}
    \cup {Mapping(<<"x">>, <<v>>) : v \in Flat}
    \cup {Mapping(<<"_set_object">>, <<v>>) : v \in Flat}
    \cup {Mapping(<<"_set_object", "x">>, <<v, w>>) :
              v \in {List(<<Atom(2)>>), Atom(2)}, w \in {Atom(1), List(<<>>)}}

Payloads ==
    Flat \cup Mappings
    \cup {List(<<m>>) : m \in Mappings}
    \cup {Mapping(<<"x">>, <<m>>) : m \in Mappings}

\* ------------------------------------------------------------------ client
MaxCalls == 2        \* send/request/close calls besides connect
MaxRecv == 3         \* packets the client's receive loop reads

Slots == 0..MaxCalls                 \* 0 is the request made by connect
CallSlots == 1..MaxCalls

\* The long field of a packet is absent ("small"), or as long as makes the
\* frame exactly MAX_PACKET bytes ("limit"), or one byte longer ("over").
Sizes == {"small", "limit", "over"}

Padded(data, size) ==
    LET room == MAX_PACKET - LENGTH_LENGTH - ByteLen(Dumps([data EXCEPT !.pad = 0]))
    IN  [data EXCEPT !.pad = CASE size = "small" -> 0
                               [] size = "limit" -> room
                               [] size = "over" -> room + 1]

\* Packets the peer sends to the client: with or without an id; the id may
\* be one of this client's or not.
ClientInbound ==
    [type : {"auth-response"}, id : {FormatId(0)}, success : BOOLEAN]
    \cup [type : {"eval-response"},
          id : {FormatId(n) : n \in CallSlots}, success : {TRUE}]
    \cup [type : {"exec-response"},
          id : {NoId, [role |-> "s", n |-> 0]}, success : {TRUE}]

\* None where a packet is expected (the empty slot of an entry, no result yet).
None == [type |-> "None", id |-> NoId, success |-> FALSE]

\* No packet written yet.
NoData == [type |-> "None", id |-> NoId, pad |-> 0]

VARIABLES
    cStream,            \* Client.stream: "none", "open", "closed"
    writerBuf,          \* bytes handed to stream.writer.write, in order
    drain_lock,         \* Stream.drain_lock is held
    current_id,         \* Client.current_id
    expected_packets,   \* Client.expected_packets: id -> [event, packet]
    read_task,          \* Client.read_task: "none", "running", "failed", "cancelled"
    cPc,                \* per call: its position
    cKind,              \* per call: "connect", "request", "send", "close"
    cData,              \* per call: the packet it writes
    cResult,            \* per call: what request returned
    broadcasts,         \* packets given to handle_broadcast, in order
    nRecv               \* packets the receive loop has read

clientVars ==
    <<cStream, writerBuf, drain_lock, current_id, expected_packets, read_task,
      cPc, cKind, cData, cResult, broadcasts, nRecv>>

\* The reading end of a stream whose peer writes frames.
VARIABLES
    rSent,              \* packets the peer has written, in order
    wire,               \* bytes written by the peer, not yet arrived
    rbuf,               \* StreamReader's buffer: bytes arrived, not yet read
    rPc,                \* read_packet: "length", "body", "raised"
    rLen,               \* `length` of read_packet
    rGot                \* packets returned by successive read_packet calls

readerVars == <<rSent, wire, rbuf, rPc, rLen, rGot>>

\* One payload through the JSON encoder and the decoder's object hook.
VARIABLES
    payload,            \* the value given to cj.dumps
    encoded,            \* the JSON document
    decoded,            \* what cj.loads returned
    jPc                 \* "start", "chosen", "dumped", "loaded"

codecVars == <<payload, encoded, decoded, jPc>>

vars == <<serverVars, clientVars, readerVars, codecVars>>

ClientInit ==
    /\ cStream = "none"
    /\ writerBuf = <<>>
    /\ drain_lock = FALSE
    /\ current_id = 0
    /\ expected_packets = <<>>
    /\ read_task = "none"
    /\ cPc = [k \in Slots |-> "idle"]
    /\ cKind = [k \in Slots |-> "none"]
    /\ cData = [k \in Slots |-> NoData]
    /\ cResult = [k \in Slots |-> None]
    /\ broadcasts = <<>>
    /\ nRecv = 0

ServerInit ==
    /\ closing = FALSE
    /\ connections = <<>>
    /\ sPc = [c \in Conns |-> "unborn"]
    /\ authed = [c \in Conns |-> FALSE]
    /\ sExit = [c \in Conns |-> "none"]
    /\ sOpen = [c \in Conns |-> FALSE]
    /\ sOut = [c \in Conns |-> <<>>]
    /\ readLog = [c \in Conns |-> <<>>]
    /\ tasks = [c \in Conns |-> <<>>]
    /\ nReads = 0

\* Mutant of LoopPc: the loop condition is always true.
LoopPcIgnoresClosing(isClosing) == "read"

\* `while not self.closing`: the position after the loop's condition is
\* evaluated, and how the task ended when the condition is false.
LoopPc(isClosing) == IF isClosing THEN "done" ELSE "read"
LoopExit(isClosing, was) == IF isClosing THEN "closing" ELSE was

\* Server.close (and Server.serve when serve_task ends): sets the flag.
ServerClose ==
    /\ ~closing
    /\ closing' = TRUE
    /\ UNCHANGED <<connections, sPc, authed, sExit, sOpen, sOut, readLog, tasks, nReads>>
    /\ UNCHANGED <<clientVars, readerVars, codecVars>>

\* handle_connection up to its first suspension: wrap the stream, append it
\* to self.connections, authed = False, evaluate the loop condition.
Accept(c) ==
    /\ sPc[c] = "unborn"
    \* connections are numbered in the order they are accepted
    /\ IF c = 1 THEN TRUE ELSE sPc[c - 1] # "unborn"
    /\ connections' = Append(connections, c)
    /\ sOpen' = [sOpen EXCEPT ![c] = TRUE]
    /\ authed' = [authed EXCEPT ![c] = FALSE]
    /\ sPc' = [sPc EXCEPT ![c] = LoopPc(closing)]
    /\ sExit' = [sExit EXCEPT ![c] = LoopExit(closing, "none")]
    /\ UNCHANGED <<closing, sOut, readLog, tasks, nReads>>
    /\ UNCHANGED <<clientVars, readerVars, codecVars>>

\* stream.read_packet() raises (EOF: struct.unpack of a short prefix; a
\* payload that does not parse): the exception leaves handle_connection.
ReadFail(c) ==
    /\ sPc[c] = "read"
    /\ sPc' = [sPc EXCEPT ![c] = "done"]
    /\ sExit' = [sExit EXCEPT ![c] = "raised"]
    /\ UNCHANGED <<closing, connections, authed, sOpen, sOut, readLog, tasks, nReads>>
    /\ UNCHANGED <<clientVars, readerVars, codecVars>>

\* First packet of a connection (authed is False).
ReadUnauthed(c, packet) ==
    /\ ~authed[c]
    /\ LET ok == (IF packet.auth = Absent THEN "None" ELSE packet.auth) = ServerAuth
       IN  /\ authed' = [authed EXCEPT ![c] = ok]
           /\ IF packet.id = NoId
                 \* packet.id raises before write_packet is called
                 THEN /\ sPc' = [sPc EXCEPT ![c] = "done"]
                      /\ sExit' = [sExit EXCEPT ![c] = "raised"]
                      /\ sOut' = sOut
                 ELSE /\ sPc' = [sPc EXCEPT ![c] = IF ok THEN "drainOk" ELSE "drainFail"]
                      /\ sExit' = sExit
                      /\ sOut' = [sOut EXCEPT ![c] = Append(@, AuthResponse(packet, ok))]
    /\ UNCHANGED <<connections, tasks>>

\* Mutant of Dispatch: the loop awaits the handler it has started.
DispatchAwaits(c, packet) ==
    /\ tasks' = [tasks EXCEPT ![c] =
                    Append(@, [handler |-> HandlerFor(packet.type),
                               packet |-> packet, status |-> "running"])]
    /\ sPc' = [sPc EXCEPT ![c] = "handler"]
    /\ sExit' = sExit
    /\ UNCHANGED connections

\* asyncio.create_task(handler(stream, packet)), then the loop condition.
Dispatch(c, packet) ==
    /\ tasks' = [tasks EXCEPT ![c] =
                    Append(@, [handler |-> HandlerFor(packet.type),
                               packet |-> packet, status |-> "running"])]
    /\ sPc' = [sPc EXCEPT ![c] = LoopPc(closing)]
    /\ sExit' = [sExit EXCEPT ![c] = LoopExit(closing, "none")]
    /\ UNCHANGED connections

\* Mutant of ReadAuthed: the disconnect test is missing.
ReadAuthedNoDisconnect(c, packet) ==
    /\ authed[c]
    /\ Dispatch(c, packet)
    /\ UNCHANGED <<authed, sOut>>

\* A packet read on an authenticated connection.
ReadAuthed(c, packet) ==
    /\ authed[c]
    /\ IF packet.type = "disconnect"
          THEN /\ connections' = ListRemove(connections, c)
               /\ sPc' = [sPc EXCEPT ![c] = "done"]
               /\ sExit' = [sExit EXCEPT ![c] = "disconnect"]
               /\ UNCHANGED tasks
          ELSE Dispatch(c, packet)
    /\ UNCHANGED <<authed, sOut>>

\* One iteration of the loop body, from read_packet returning `packet` to
\* the next suspension point or the end of the task.
ReadPacket(c, packet) ==
    /\ sPc[c] = "read"
    /\ nReads < MaxReads
    /\ nReads' = nReads + 1
    /\ readLog' = [readLog EXCEPT ![c] = Append(@, packet)]
    /\ \/ ReadUnauthed(c, packet)
       \/ ReadAuthed(c, packet)
    /\ UNCHANGED <<closing, sOpen>>
    /\ UNCHANGED <<clientVars, readerVars, codecVars>>

\* write_packet of the auth-response returns (drain done).
DrainDone(c) ==
    /\ sPc[c] \in {"drainOk", "drainFail"}
    /\ IF sPc[c] = "drainOk"
          THEN /\ sPc' = [sPc EXCEPT ![c] = LoopPc(closing)]      \* continue
               /\ sExit' = [sExit EXCEPT ![c] = LoopExit(closing, "none")]
          ELSE /\ sPc' = [sPc EXCEPT ![c] = "done"]               \* return
               /\ sExit' = [sExit EXCEPT ![c] = "authfail"]
    /\ UNCHANGED <<closing, connections, authed, sOpen, sOut, readLog, tasks, nReads>>
    /\ UNCHANGED <<clientVars, readerVars, codecVars>>

\* A handler task finishes, normally or by raising.  The task was created by
\* asyncio.create_task and nothing awaits it.
HandlerEnds(c, i, how) ==
    /\ i \in DOMAIN tasks[c]
    /\ tasks[c][i].status = "running"
    /\ tasks' = [tasks EXCEPT ![c][i].status = how]
    /\ UNCHANGED <<closing, connections, sPc, authed, sExit, sOpen, sOut, readLog, nReads>>
    /\ UNCHANGED <<clientVars, readerVars, codecVars>>

HandlerDone(c, i) == HandlerEnds(c, i, "done")

\* Mutant of HandlerFail: the loop awaits the handler, so the handler's
\* exception leaves handle_connection.
HandlerFailPropagates(c, i) ==
    /\ i \in DOMAIN tasks[c]
    /\ tasks[c][i].status = "running"
    /\ tasks' = [tasks EXCEPT ![c][i].status = "failed"]
    /\ sPc' = [sPc EXCEPT ![c] = "done"]
    /\ sExit' = [sExit EXCEPT ![c] = "raised"]
    /\ UNCHANGED <<closing, connections, authed, sOpen, sOut, readLog, nReads>>
    /\ UNCHANGED <<clientVars, readerVars, codecVars>>

HandlerFail(c, i) == HandlerEnds(c, i, "failed")

ServerNext ==
    \/ ServerClose
    \/ \E c \in Conns : Accept(c)
    \/ \E c \in Conns : ReadFail(c)
    \/ \E c \in Conns, packet \in ServerInbound : ReadPacket(c, packet)
    \/ \E c \in Conns : DrainDone(c)
    \/ \E c \in Conns, i \in 1..MaxReads : HandlerDone(c, i)
    \/ \E c \in Conns, i \in 1..MaxReads : HandlerFail(c, i)

\* Nothing written to the reading end yet.
ReaderInit ==
    /\ rSent = <<>>
    /\ wire = <<>>
    /\ rbuf = <<>>
    /\ rPc = "length"
    /\ rLen = 0
    /\ rGot = <<>>

\* No payload given to the encoder yet.
CodecInit ==
    /\ payload = NoValue
    /\ encoded = NoValue
    /\ decoded = NoValue
    /\ jPc = "start"

Init == ServerInit /\ ClientInit /\ ReaderInit /\ CodecInit

SpecServer == Init /\ [][ServerNext]_vars

\* ---------------------------------------------------------- client actions
\* The id request gave to call k's packet.
IdOf(k) == cData[k].id

\* Mutant of Cancelled: cancel() leaves the task running.
CancelledNot(task) == task

\* Task.cancel(): a task that has already ended is left as it is.
Cancelled(task) == IF task = "running" THEN "cancelled" ELSE task

\* Mutant of Register: the counter is not advanced.
RegisterSameId ==
    /\ current_id' = current_id
    /\ expected_packets' =
          (FormatId(current_id) :> [event |-> FALSE, packet |-> None])
          @@ expected_packets

\* Mutant of Register: the entry is not created before the packet is sent.
RegisterNoEntry ==
    /\ current_id' = current_id + 1
    /\ expected_packets' = expected_packets

\* request, lines 137-142: take the next id and create the entry before the
\* packet is sent.
Register ==
    /\ current_id' = current_id + 1
    /\ expected_packets' =
          (FormatId(current_id) :> [event |-> FALSE, packet |-> None])
          @@ expected_packets

\* Stream.write_packet up to its first suspension, for call k writing `data`:
\* encode, check the size, writer.write, then take drain_lock or queue for it.
WritePacket(k, data) ==
    /\ cData' = [cData EXCEPT ![k] = data]
    /\ IF TooBig(Frame(data))
          THEN /\ cPc' = [cPc EXCEPT ![k] = "failed"]
               /\ UNCHANGED <<writerBuf, drain_lock>>
          ELSE /\ writerBuf' = writerBuf \o Frame(data)
               /\ drain_lock' = TRUE
               /\ cPc' = [cPc EXCEPT ![k] = IF drain_lock THEN "lock" ELSE "drain"]

\* Client.connect up to the first suspension of its request.
Connect(size) ==
    /\ cPc[0] = "idle"
    /\ cStream = "none"
    /\ cStream' = "open"
    /\ read_task' = "running"
    /\ cKind' = [cKind EXCEPT ![0] = "connect"]
    /\ Register
    /\ WritePacket(0, Padded([type |-> "auth", id |-> FormatId(current_id), pad |-> 0], size))
    /\ UNCHANGED <<cResult, broadcasts, nRecv>>
    /\ UNCHANGED <<serverVars, readerVars, codecVars>>

\* Calls are numbered in the order they start.
MayStart(k) ==
    /\ cPc[k] = "idle"
    /\ cStream = "open"
    /\ k = 1 \/ cPc[k - 1] # "idle"

\* Client.request up to its first suspension.
Request(k, size) ==
    /\ MayStart(k)
    /\ cKind' = [cKind EXCEPT ![k] = "request"]
    /\ Register
    /\ WritePacket(k, Padded([type |-> "eval", id |-> FormatId(current_id), pad |-> 0], size))
    /\ UNCHANGED <<cStream, read_task, cResult, broadcasts, nRecv>>
    /\ UNCHANGED <<serverVars, readerVars, codecVars>>

\* Client.send up to its first suspension.
Send(k, size) ==
    /\ MayStart(k)
    /\ cKind' = [cKind EXCEPT ![k] = "send"]
    /\ WritePacket(k, Padded([type |-> "shard-ready", id |-> NoId, pad |-> 0], size))
    /\ UNCHANGED <<cStream, read_task, current_id, expected_packets,
                   cResult, broadcasts, nRecv>>
    /\ UNCHANGED <<serverVars, readerVars, codecVars>>

\* Client.close up to its first suspension, called once connect has returned.
Close(k) ==
    /\ MayStart(k)
    /\ cPc[0] = "returned"
    /\ cKind' = [cKind EXCEPT ![k] = "close"]
    /\ read_task' = Cancelled(read_task)
    /\ WritePacket(k, [type |-> "disconnect", id |-> NoId, pad |-> 0])
    /\ UNCHANGED <<cStream, current_id, expected_packets,
                   cResult, broadcasts, nRecv>>
    /\ UNCHANGED <<serverVars, readerVars, codecVars>>

\* A call queued for drain_lock gets it.
Acquire(k) ==
    /\ cPc[k] = "lock"
    /\ ~drain_lock
    /\ drain_lock' = TRUE
    /\ cPc' = [cPc EXCEPT ![k] = "drain"]
    /\ UNCHANGED <<cStream, writerBuf, current_id, expected_packets, read_task,
                   cKind, cData, cResult, broadcasts, nRecv>>
    /\ UNCHANGED <<serverVars, readerVars, codecVars>>

\* Mutant of ReturnFrom: connect closes the stream but leaves read_task alone.
ReturnFromNoCancel(k) ==
    LET res == expected_packets[IdOf(k)].packet
    IN  /\ cResult' = [cResult EXCEPT ![k] = res]
        /\ UNCHANGED read_task
        /\ IF cKind[k] = "connect" /\ ~res.success
              THEN /\ cStream' = "closed"
                   /\ cPc' = [cPc EXCEPT ![k] = "closewait"]
              ELSE /\ cPc' = [cPc EXCEPT ![k] = "returned"]
                   /\ UNCHANGED cStream

\* request returns expected_packets[packet_id][1]; connect then looks at
\* res.success and, when it is false, cancels read_task and closes the stream.
ReturnFrom(k) ==
    LET res == expected_packets[IdOf(k)].packet
    IN  /\ cResult' = [cResult EXCEPT ![k] = res]
        /\ IF cKind[k] = "connect" /\ ~res.success
              THEN /\ read_task' = Cancelled(read_task)
                   /\ cStream' = "closed"
                   /\ cPc' = [cPc EXCEPT ![k] = "closewait"]
              ELSE /\ cPc' = [cPc EXCEPT ![k] = "returned"]
                   /\ UNCHANGED <<cStream, read_task>>

\* writer.drain() completes: the lock is released and write_packet returns to
\* send, close or request.
Drained(k) ==
    /\ cPc[k] = "drain"
    /\ drain_lock' = FALSE
    /\ CASE cKind[k] = "send" ->
              /\ cPc' = [cPc EXCEPT ![k] = "returned"]
              /\ UNCHANGED <<cStream, read_task, cResult>>
         [] cKind[k] = "close" ->
              /\ cStream' = "closed"
              /\ cPc' = [cPc EXCEPT ![k] = "returned"]
              /\ UNCHANGED <<read_task, cResult>>
         [] OTHER ->
              IF expected_packets[IdOf(k)].event
                 THEN ReturnFrom(k)
                 ELSE /\ cPc' = [cPc EXCEPT ![k] = "wait"]
                      /\ UNCHANGED <<cStream, read_task, cResult>>
    /\ UNCHANGED <<writerBuf, current_id, expected_packets,
                   cKind, cData, broadcasts, nRecv>>
    /\ UNCHANGED <<serverVars, readerVars, codecVars>>

\* event.wait() returns in a call suspended on it.
Wake(k) ==
    /\ cPc[k] = "wait"
    /\ expected_packets[IdOf(k)].event
    /\ ReturnFrom(k)
    /\ UNCHANGED <<writerBuf, drain_lock, current_id, expected_packets,
                   cKind, cData, broadcasts, nRecv>>
    /\ UNCHANGED <<serverVars, readerVars, codecVars>>

\* connect raises once the stream it closed has finished closing.
ConnectRaise ==
    /\ cPc[0] = "closewait"
    /\ cPc' = [cPc EXCEPT ![0] = "failed"]
    /\ UNCHANGED <<cStream, writerBuf, drain_lock, current_id, expected_packets,
                   read_task, cKind, cData, cResult, broadcasts, nRecv>>
    /\ UNCHANGED <<serverVars, readerVars, codecVars>>

\* Mutant of RecordFor: responses are matched to requests in issue order.
RecordForOldest(packet) ==
    LET pending == {id \in DOMAIN expected_packets : ~expected_packets[id].event}
    IN  IF pending = {} THEN packet.id
        ELSE CHOOSE id \in pending : \A other \in pending : id.n <= other.n

\* The entry of expected_packets a matched packet is stored in.
RecordFor(packet) == packet.id

\* One iteration of read_packets, for the packet read_packet returned.
ReadPackets(packet) ==
    /\ read_task = "running"
    /\ nRecv < MaxRecv
    /\ nRecv' = nRecv + 1
    /\ IF packet.id = NoId
          \* packet.id raises: the task ends
          THEN /\ read_task' = "failed"
               /\ UNCHANGED <<expected_packets, broadcasts>>
          ELSE IF packet.id \in DOMAIN expected_packets
          THEN /\ expected_packets' =
                     [expected_packets EXCEPT ![RecordFor(packet)] =
                         [event |-> TRUE, packet |-> packet]]
               /\ UNCHANGED <<read_task, broadcasts>>
          ELSE /\ broadcasts' = Append(broadcasts, packet)
               /\ UNCHANGED <<read_task, expected_packets>>
    /\ UNCHANGED <<cStream, writerBuf, drain_lock, current_id,
                   cPc, cKind, cData, cResult>>
    /\ UNCHANGED <<serverVars, readerVars, codecVars>>

\* stream.read_packet() raises in read_packets: the task ends.
ClientReadFail ==
    /\ read_task = "running"
    /\ read_task' = "failed"
    /\ UNCHANGED <<cStream, writerBuf, drain_lock, current_id, expected_packets,
                   cPc, cKind, cData, cResult, broadcasts, nRecv>>
    /\ UNCHANGED <<serverVars, readerVars, codecVars>>

\* The client with packets of ordinary size and a peer that sends anything.
ClientNext ==
    \/ Connect("small")
    \/ \E k \in CallSlots : Request(k, "small")
    \/ \E k \in CallSlots : Send(k, "small")
    \/ \E k \in CallSlots : Close(k)
    \/ \E k \in Slots : Acquire(k)
    \/ \E k \in Slots : Drained(k)
    \/ \E k \in Slots : Wake(k)
    \/ ConnectRaise
    \/ ClientReadFail
    \/ \E packet \in ClientInbound : ReadPackets(packet)

SpecClient == Init /\ [][ClientNext]_vars

\* The write path: packets of every size, and a peer that accepts the auth
\* request.
Answers == {[type |-> "auth-response", id |-> FormatId(0), success |-> TRUE]}

StreamNext ==
    \/ \E size \in Sizes : Connect(size)
    \/ \E k \in CallSlots, size \in Sizes : Request(k, size)
    \/ \E k \in CallSlots, size \in Sizes : Send(k, size)
    \/ \E k \in CallSlots : Close(k)
    \/ \E k \in Slots : Acquire(k)
    \/ \E k \in Slots : Drained(k)
    \/ \E k \in Slots : Wake(k)
    \/ \E packet \in Answers : ReadPackets(packet)

SpecStream == Init /\ [][StreamNext]_vars

\* ----------------------------------------------------------- reader actions
MaxFrames == 2       \* packets the peer writes to the reading end

\* What the peer writes: packets with and without an id.
PeerPackets ==
    {[type |-> "auth", id |-> FormatId(0), pad |-> 0],
     [type |-> "eval", id |-> FormatId(1), pad |-> 0],
     [type |-> "shard-ready", id |-> NoId, pad |-> 0]}

\* The type a type code stands for ("None": no type).
TypeOf(code) ==
    CASE code = 97 -> "auth"
      [] code = 101 -> "eval"
      [] code = 115 -> "shard-ready"
      [] code = 100 -> "disconnect"
      [] OTHER -> "None"

\* cj.loads(data, object_hook=special_obj_hook) of a packet's bytes: the
\* packet, or NoData when the bytes are not one whole JSON object (the
\* decoder raises).
Loads(bytes) ==
    LET n == Len(bytes)
    IN  IF n < 3 \/ bytes[1] # Byte(123) \/ bytes[n] # Byte(125) THEN NoData
        ELSE LET body == SubSeq(bytes, 2, n - 1)
                 type == IF body[1].n = 1 THEN TypeOf(body[1].b) ELSE "None"
                 hasId == Len(body) >= 3 /\ body[2] = Byte(99) /\ body[3].n = 1
                 rest == IF hasId THEN SubSeq(body, 4, Len(body)) ELSE Tail(body)
                 isPad == Len(rest) = 1 /\ rest[1].b = 120
             IN  IF type = "None" \/ ~(rest = <<>> \/ isPad) THEN NoData
                 ELSE [type |-> type,
                       id |-> IF hasId THEN FormatId(body[3].b - 48) ELSE NoId,
                       pad |-> IF isPad THEN rest[1].n ELSE 0]

\* The peer's write_packet: one frame more on its way to the reader.
PeerWrites(data) ==
    /\ Len(rSent) < MaxFrames
    /\ rSent' = Append(rSent, data)
    /\ wire' = wire \o Frame(data)
    /\ UNCHANGED <<rbuf, rPc, rLen, rGot>>
    /\ UNCHANGED <<serverVars, clientVars, codecVars>>

\* The sizes a chunk can have: from one byte to everything written.
Chunks == 1..(MaxFrames * ByteLen(Frame([type |-> "auth", id |-> FormatId(0), pad |-> 0])))

\* The transport feeds the next n bytes to the StreamReader: a chunk may end
\* anywhere, inside a frame or not.
Deliver(n) ==
    /\ n \in 1..Len(wire)
    /\ rbuf' = rbuf \o SubSeq(wire, 1, n)
    /\ wire' = SubSeq(wire, n + 1, Len(wire))
    /\ UNCHANGED <<rSent, rPc, rLen, rGot>>
    /\ UNCHANGED <<serverVars, clientVars, codecVars>>

\* StreamReader.read(n), the buffer not empty: how many bytes it returns, at
\* most n and no more than have arrived.
ReaderRead(n) == IF Len(rbuf) < n THEN Len(rbuf) ELSE n

\* (length,) = struct.unpack(">i", await self.reader.read(LENGTH_LENGTH)):
\* unpack raises unless it is given four bytes.
ReadLength ==
    /\ rPc = "length"
    /\ rbuf # <<>>
    /\ LET got == ReaderRead(LENGTH_LENGTH)
       IN  /\ got > 0
           /\ rbuf' = SubSeq(rbuf, got + 1, Len(rbuf))
           /\ IF got < LENGTH_LENGTH
              THEN rPc' = "raised" /\ rLen' = rLen
              ELSE rPc' = "body" /\ rLen' = UnpackLength(SubSeq(rbuf, 1, got))
    /\ UNCHANGED <<rSent, wire, rGot>>
    /\ UNCHANGED <<serverVars, clientVars, codecVars>>

\* data = await self.reader.read(length); return cj.loads(data, ...)
ReadBody ==
    /\ rPc = "body"
    /\ rbuf # <<>>
    /\ LET got == ReaderRead(rLen)
           packet == Loads(SubSeq(rbuf, 1, got))
       IN  /\ got > 0
           /\ rbuf' = SubSeq(rbuf, got + 1, Len(rbuf))
           /\ IF packet = NoData
              THEN rPc' = "raised" /\ rGot' = rGot
              ELSE rPc' = "length" /\ rGot' = Append(rGot, packet)
    /\ UNCHANGED <<rSent, wire, rLen>>
    /\ UNCHANGED <<serverVars, clientVars, codecVars>>

ReaderNext ==
    \/ \E data \in PeerPackets : PeerWrites(data)
    \/ \E n \in Chunks : Deliver(n)
    \/ ReadLength
    \/ ReadBody

SpecReader == Init /\ [][ReaderNext]_vars

\* ------------------------------------------------------------ codec actions
\* A payload is handed to write_packet.
Choose(v) ==
    /\ jPc = "start"
    /\ payload' = v
    /\ jPc' = "chosen"
    /\ UNCHANGED <<encoded, decoded>>
    /\ UNCHANGED <<serverVars, clientVars, readerVars>>

\* data = cj.dumps(data, cls=CustomJSONEncoder).encode()
Dump(reversed) ==
    /\ jPc = "chosen"
    /\ encoded' = Encode(payload, reversed)
    /\ jPc' = "dumped"
    /\ UNCHANGED <<payload, decoded>>
    /\ UNCHANGED <<serverVars, clientVars, readerVars>>

\* return cj.loads(data, object_hook=special_obj_hook)
Load ==
    /\ jPc = "dumped"
    /\ decoded' = Decode(encoded)
    /\ jPc' = "loaded"
    /\ UNCHANGED <<payload, encoded>>
    /\ UNCHANGED <<serverVars, clientVars, readerVars>>

CodecNext ==
    \/ \E v \in Payloads : Choose(v)
    \/ \E reversed \in BOOLEAN : Dump(reversed)
    \/ Load

SpecCodec == Init /\ [][CodecNext]_vars

\* ---------------------------------------------------------- client claims
\* Call k has come back from request with a packet.
HasResult(k) ==
    \/ cKind[k] = "request" /\ cPc[k] = "returned"
    \/ cKind[k] = "connect" /\ cPc[k] \in {"returned", "closewait"}
    \/ cKind[k] = "connect" /\ cPc[k] = "failed" /\ cResult[k] # None

\* C1: a request call that returns does so with a packet bearing the id that
\* call gave its own request, which is the id of no other call.
C1_OwnResponse ==
    \A k \in Slots :
        HasResult(k) =>
            /\ cResult[k].id = IdOf(k)
            /\ IdOf(k) # NoId
            /\ \A j \in Slots \ {k} : cResult[k].id # IdOf(j)

\* The response to the later request has come first.
C1_Witness ==
    /\ cKind[1] = "request" /\ cKind[2] = "request"
    /\ cPc[1] = "wait"
    /\ cPc[2] = "returned"
    /\ cResult[2].id = FormatId(2)

\* C2: a packet the receive loop reads that has no id, or an id no pending
\* request has, is given to handle_broadcast once, sets no event, and the
\* loop keeps running.
C2_UnmatchedToBroadcast ==
    [][\A packet \in ClientInbound :
          (/\ ReadPackets(packet)
           /\ packet.id = NoId \/ packet.id \notin DOMAIN expected_packets)
          => /\ broadcasts' = Append(broadcasts, packet)
             /\ expected_packets' = expected_packets
             /\ read_task' = "running"
      ]_vars

\* The step in which connect gets the auth-response from its request.
ConnectGetsResponse ==
    /\ cPc[0] \in {"drain", "wait"}
    /\ cPc'[0] \in {"returned", "closewait"}

\* C8 as stated: on success=false connect cancels the receive loop, closes
\* the stream and fails; on success=true it returns with the receive loop
\* running and the stream open.
C8_ConnectOutcome ==
    [][/\ ConnectGetsResponse =>
            IF cResult'[0].success
               THEN /\ cPc'[0] = "returned"
                    /\ read_task' = "running"
                    /\ cStream' = "open"
               ELSE /\ cPc'[0] = "closewait"
                    /\ read_task' # "running"
                    /\ cStream' = "closed"
       /\ (cPc[0] = "closewait" /\ cPc'[0] # "closewait") => cPc'[0] = "failed"
      ]_vars

\* C8 amended: on success=false connect leaves the receive loop not running
\* (cancelled, unless it had already ended), closes the stream and fails; on
\* success=true it returns with the stream open and the receive loop as it
\* was: running, unless it had already ended on a failed read.
C8_ConnectOutcomeAmended ==
    [][/\ ConnectGetsResponse =>
            IF cResult'[0].success
               THEN /\ cPc'[0] = "returned"
                    /\ read_task' = read_task
                    /\ read_task \in {"running", "failed"}
                    /\ cStream' = "open"
               ELSE /\ cPc'[0] = "closewait"
                    /\ read_task' = (IF read_task = "running" THEN "cancelled"
                                     ELSE "failed")
                    /\ cStream' = "closed"
       /\ (cPc[0] = "closewait" /\ cPc'[0] # "closewait") => cPc'[0] = "failed"
      ]_vars

C8_Witness ==
    /\ cPc[0] = "failed"
    /\ ~cResult[0].success /\ cResult[0].id = FormatId(0)
    /\ read_task = "cancelled"
    /\ cStream = "closed"

\* Call k is a request (connect's included) that has started.
IsRequest(k) == cKind[k] \in {"request", "connect"}

\* Call k is a request still in flight: it has neither returned nor failed.
InFlight(k) == IsRequest(k) /\ cPc[k] \in {"lock", "drain", "wait"}

\* C13: an entry of expected_packets never outlives the request call that
\* created it: the table holds only the ids of requests still in flight.
C13_NoRecordOutlivesCall ==
    \A id \in DOMAIN expected_packets :
        \E k \in Slots : InFlight(k) /\ IdOf(k) = id

\* C14: the ids given to request calls are "c" followed by a strictly
\* increasing counter: no two calls share an id, a call started later has
\* the larger counter, and the counter is ahead of every id given out.
C14_IdsIncrease ==
    /\ \A k \in Slots : IsRequest(k) =>
           /\ IdOf(k) = FormatId(IdOf(k).n)
           /\ IdOf(k).n < current_id
    /\ \A j, k \in Slots : (IsRequest(j) /\ IsRequest(k) /\ j < k) =>
           IdOf(j).n < IdOf(k).n

\* connect, a send and a request have started: the request's counter is 1.
C14_Witness ==
    /\ cKind[0] = "connect"
    /\ cKind[1] = "send"
    /\ cKind[2] = "request"
    /\ IdOf(2) = FormatId(1)

\* C15: the receive loop stores a response in an entry and signals it once
\* only: an entry that has been signalled is never written again, so the
\* request returns the first packet that bore its id.
C15_StoredOnce ==
    [][\A id \in DOMAIN expected_packets :
          expected_packets[id].event => expected_packets'[id] = expected_packets[id]]_vars

\* The receive loop has stopped.
Stopped == read_task \in {"failed", "cancelled"}

\* Client.close has been called, or connect has seen the authentication fail.
CancelRequested ==
    \/ \E k \in Slots : cKind[k] = "close"
    \/ cPc[0] = "closewait"

C18_RegisteredBeforeWritten ==
    [][\A k \in Slots :
          /\ InFlight(k)' => IdOf(k)' \in DOMAIN expected_packets'
          /\ (InFlight(k) /\ broadcasts' # broadcasts) =>
                 broadcasts'[Len(broadcasts')].id # IdOf(k)]_vars

\* A response was stored for a request that has written its packet and has
\* not yet reached event.wait(), and nothing went to handle_broadcast.
C18_Witness ==
    /\ cKind[1] = "request"
    /\ cPc[1] = "drain"
    /\ expected_packets[IdOf(1)].event
    /\ broadcasts = <<>>

\* ------------------------------------------------------------ stream claims
\* Call k has handed a frame to writer.write.
HasWritten(k) == cPc[k] # "idle" /\ ByteLen(Frame(cData[k])) <= MAX_PACKET

FramesIn(bytes) == ParseFrames(bytes)

\* frames are exactly the payloads of the calls that have written, each once.
WholeFrames(frames) ==
        /\ frames # BadFrames
        /\ Len(frames) = Cardinality({k \in Slots : HasWritten(k)})
        /\ \A k \in Slots :
              HasWritten(k) =>
                 Cardinality({i \in DOMAIN frames : frames[i] = Dumps(cData[k])})
                 = Cardinality({j \in Slots :
                                  HasWritten(j) /\ Dumps(cData[j]) = Dumps(cData[k])})

\* C6: whatever the interleaving of the calls that write, the bytes given to
\* the writer are whole frames one after another: a reader splits them into
\* exactly the payloads of the calls that have written, each once.
C6_WholeFrames == WholeFrames(FramesIn(writerBuf))

\* Three calls are inside write_packet at once.
C6_Witness ==
    /\ \E k \in Slots : cPc[k] = "drain"
    /\ Cardinality({k \in Slots : cPc[k] = "lock"}) >= 2
    /\ Len(FramesIn(writerBuf)) >= 3

\* The step in which call k starts.
Starts(k) == cPc[k] = "idle" /\ cPc'[k] # "idle"

IsPrefix(s, t) == Len(s) <= Len(t) /\ s = SubSeq(t, 1, Len(s))

\* C11: however the bytes of the stream are split into chunks on their way
\* to the reader, a read returning fewer bytes than asked for included,
\* successive read_packet calls return the written packets whole and in
\* order: no call raises, what has been returned is the beginning of what
\* was written, and once every byte has arrived and been read it is all of it.
C11_AnyChunking ==
    /\ rPc # "raised"
    /\ IsPrefix(rGot, rSent)
    /\ (wire = <<>> /\ rbuf = <<>> /\ rPc = "length") => rGot = rSent

\* ------------------------------------------------------------- codec claims
\* The one shape the format leaves ambiguous: a mapping whose only key is
\* _set_object and whose value is a list, at the top or inside the value.
RECURSIVE HasSetShape(_)
HasSetShape(v) ==
    \/ v.kind = "mapping" /\ v.keys = <<"_set_object">> /\ v.items[1].kind = "list"
    \/ \E i \in DOMAIN v.items : HasSetShape(v.items[i])

\* C12: decoding the encoding of a payload gives back the payload, for
\* strings, numbers, booleans, null, lists, nested mappings (those holding
\* the key _set_object next to other keys included) and sets; payloads of
\* the ambiguous set shape are left aside.
C12_RoundTrip ==
    (jPc = "loaded" /\ ~HasSetShape(payload)) => decoded = payload

\* ---------------------------------------------------------- server claims
InList(list, x) == \E i \in DOMAIN list : list[i] = x

\* The first packet read on c carried the configured secret.
FirstHasSecret(c) == readLog[c] # <<>> /\ readLog[c][1].auth = ServerAuth

\* The first packet read on c authenticated the connection and the loop went
\* on (the auth-response was written).
AuthSucceeded(c) == FirstHasSecret(c) /\ readLog[c][1].id # NoId

\* C3: a first packet without the secret gets exactly one auth-response with
\* success=false echoing its id, nothing more is read and nothing is
\* dispatched; a handler runs for a connection only if its first packet
\* carried the secret.
C3_AuthGate ==
    \A c \in Conns :
        /\ (readLog[c] # <<>> /\ ~FirstHasSecret(c) /\ sPc[c] = "done") =>
              /\ sOut[c] = <<[type |-> "auth-response", success |-> FALSE,
                              id |-> readLog[c][1].id]>>
              /\ Len(readLog[c]) = 1
              /\ tasks[c] = <<>>
        /\ tasks[c] # <<>> => FirstHasSecret(c)

\* Position of the first disconnect packet read after authentication (0: none).
FirstDisconnect(c) ==
    LET S == {i \in 2..Len(readLog[c]) : readLog[c][i].type = "disconnect"}
    IN  IF S = {} THEN 0 ELSE CHOOSE i \in S : \A j \in S : i <= j

\* C4: a disconnect packet read on an authenticated connection removes the
\* connection from Server.connections, writes no response, is not dispatched
\* and is the last packet read from that connection.
C4_Disconnect ==
    \A c \in Conns :
        (AuthSucceeded(c) /\ FirstDisconnect(c) # 0) =>
            /\ ~InList(connections, c)
            /\ Len(readLog[c]) = FirstDisconnect(c)
            /\ Len(sOut[c]) = 1
            /\ \A i \in DOMAIN tasks[c] : tasks[c][i].packet.type # "disconnect"
            /\ Len(tasks[c]) = FirstDisconnect(c) - 2
            /\ sPc[c] = "done"

C4_Witness ==
    \E c \in Conns :
        /\ AuthSucceeded(c) /\ FirstDisconnect(c) = 3
        /\ Len(tasks[c]) = 1

\* The non-disconnect packets read on c after authentication, in read order.
DispatchablePackets(c) ==
    LET IsData(p) == p.type # "disconnect"
    IN  IF AuthSucceeded(c)
           THEN SelectSeq(SubSeq(readLog[c], 2, Len(readLog[c])), IsData)
           ELSE <<>>

\* C5: every non-disconnect packet read on an authenticated connection is
\* dispatched exactly once, to the registered handler of its type, or to the
\* missing-packet handler when its type has none.
C5_DispatchOnce ==
    \A c \in Conns :
        /\ Len(tasks[c]) = Len(DispatchablePackets(c))
        /\ \A i \in DOMAIN tasks[c] :
              /\ tasks[c][i].packet = DispatchablePackets(c)[i]
              /\ tasks[c][i].handler =
                    (IF tasks[c][i].packet.type = "eval" THEN "handle_eval"
                     ELSE "handle_missing_packet")

C5_Witness ==
    \E c \in Conns :
        /\ Len(tasks[c]) = 2
        /\ tasks[c][1].packet.type = "nonexistent-type"
        /\ tasks[c][1].handler = "handle_missing_packet"
        /\ tasks[c][2].handler = "handle_eval"

\* c has a handler task that raised.
HasFailedTask(c) == \E i \in DOMAIN tasks[c] : tasks[c][i].status = "failed"

\* C9: a handler task that raises changes neither the position of the
\* connection's loop nor the stream nor Server.connections, and a packet read
\* on a connection with a failed handler is still dispatched.
C9_HandlerFailureIsolated ==
    [][\A c \in Conns :
          /\ (\E i \in DOMAIN tasks[c] :
                  /\ tasks[c][i].status = "running"
                  /\ i \in DOMAIN tasks'[c]
                  /\ tasks'[c][i].status = "failed")
               => /\ sPc'[c] = sPc[c]
                  /\ sExit'[c] = sExit[c]
                  /\ sOpen'[c] = sOpen[c]
                  /\ connections' = connections
          /\ (/\ HasFailedTask(c)
              /\ Len(readLog'[c]) = Len(readLog[c]) + 1
              /\ readLog'[c][Len(readLog'[c])].type # "disconnect")
               => /\ Len(tasks'[c]) = Len(tasks[c]) + 1
                  /\ tasks'[c][Len(tasks'[c])].packet = readLog'[c][Len(readLog'[c])]
                  /\ sExit'[c] \in {"none", "closing"}
      ]_vars

C9_Witness ==
    \E c \in Conns :
        /\ Len(tasks[c]) = 2
        /\ tasks[c][1].status = "failed"
        /\ tasks[c][2].status = "running"
        /\ sPc[c] = "read"

\* C10: a handle_connection task that has ended has closed its stream.
C10_ClosedOnExit ==
    \A c \in Conns : sPc[c] = "done" => ~sOpen[c]

\* C17: the loop of a connection never waits for a handler: after starting
\* one it goes straight on to the loop condition and the next read, and a
\* handler ending does not move the loop, so later packets are read and
\* dispatched while earlier handlers run and handlers end in any order.
C17_LoopNeverWaits ==
    [][\A c \in Conns :
          /\ Len(tasks'[c]) > Len(tasks[c]) => sPc'[c] = (IF closing THEN "done" ELSE "read")
          /\ (tasks'[c] # tasks[c] /\ Len(tasks'[c]) = Len(tasks[c])) => sPc'[c] = sPc[c]]_vars

\* A second packet was dispatched and its handler has ended while the
\* handler of the first still runs.
C17_Witness ==
    \E c \in Conns :
        /\ Len(tasks[c]) >= 2
        /\ tasks[c][1].status = "running"
        /\ tasks[c][2].status = "done"

\* C19: Server.connections holds exactly the connections whose loop is
\* still running.
C19_ConnectionsAreRunning ==
    \A c \in Conns : InList(connections, c) <=> sPc[c] \notin {"unborn", "done"}

\* C20: once closing is set a loop reads at most one more packet, the one
\* it was suspended on: that packet is authenticated or dispatched as usual,
\* and a loop that is not suspended in a read never reads again; setting
\* closing leaves every handler task and every loop as it was.
C20_AtMostOneMore ==
    [][/\ (closing' /\ ~closing) => (tasks' = tasks /\ sPc' = sPc)
       /\ closing => \A c \in Conns :
             /\ sPc[c] # "read" => sPc'[c] # "read"
             /\ readLog'[c] # readLog[c] =>
                   LET packet == readLog'[c][Len(readLog'[c])]
                   IN  /\ sPc'[c] # "read"
                       /\ (authed[c] /\ packet.type # "disconnect") =>
                              Len(tasks'[c]) = Len(tasks[c]) + 1
                       /\ (~authed[c] /\ packet.id # NoId) =>
                              Len(sOut'[c]) = Len(sOut[c]) + 1]_vars

\* A loop ended by closing right after dispatching a packet, whose handler
\* still runs.
C20_Witness ==
    \E c \in Conns :
        /\ closing
        /\ sExit[c] = "closing"
        /\ tasks[c] # <<>>
        /\ tasks[c][Len(tasks[c])].status = "running"
====
